---- MODULE Spec2Model ----
(***************************************************************************)
(* Life_Map: streamlit_app.py.  The script builds a grid of the months of  *)
(* a life (create_life_months_grid), renders it cell by cell               *)
(* (render_life_months) and derives three metrics (main).  Streamlit runs  *)
(* main again, from the top, every time one of the two sliders changes;    *)
(* nothing but the widgets' values survives from one run to the next.      *)
(***************************************************************************)
EXTENDS Integers, Sequences, FiniteSets

VARIABLES
    slider_lifespan,    \* value held by the "Expected Lifespan" widget
    slider_age,         \* value held by the "Current Age" widget
    pc,                 \* "rerun": a run of main is due; "done": main has run
    expected_lifespan,  \* main's local, as passed to create_life_months_grid
    current_age,        \* main's local, as passed to create_life_months_grid
    life_grid,          \* main's local: what create_life_months_grid returned
    grid_html,          \* the cells render_life_months emitted, in order
    metrics,            \* months_lived, months_total, percentage_lived
    exception,          \* the exception that ended the run, or "none"
    call,               \* the last direct call of create_life_months_grid
    memo                \* an earlier direct call, kept for comparison

vars == <<slider_lifespan, slider_age, pc, expected_lifespan, current_age,
          life_grid, grid_html, metrics, exception, call, memo>>

----------------------------------------------------------------------------
(* Program constants.                                                      *)

\* st.slider("Expected Lifespan", min_value=50, max_value=120, value=90)
MinLifespan == 50
MaxLifespan == 120
DefaultLifespan == 90
\* st.slider("Current Age", min_value=0, max_value=expected_lifespan, value=30)
MinAge == 0
DefaultAge == 30
\* np.zeros((life_span // 3 + 1, 36), dtype=int); month // 36; month % 36
GridCols == 36
YearsPerRow == 3
\* life_span * 12, current_age * 12
MonthsPerYear == 12

----------------------------------------------------------------------------
(* numpy: a 2-D integer array and indexed assignment.                      *)

\* The array a stale buffer would give: the previous call's, when it fits.
ZerosStale(rows, cols) ==
    IF call.ret.error = "none" /\ call.ret.rows = rows
    THEN call.ret.grid
    ELSE [r \in 0..(rows - 1) |-> [c \in 0..(cols - 1) |-> 0]]

\* np.zeros((rows, cols), dtype=int): a fresh array, every cell 0.
Zeros(rows, cols) ==
    [r \in 0..(rows - 1) |-> [c \in 0..(cols - 1) |-> 0]]

IndexOKNoNegative(i, n) == 0 <= i /\ i < n

\* An index i on an axis of length n is valid when -n <= i < n;
\* any other index raises IndexError.
IndexOK(i, n) == (0 - n) <= i /\ i < n

\* A valid negative index counts from the end of the axis.
ResolveIndex(i, n) == IF i < 0 THEN i + n ELSE i

\* An index that addresses the axis without wrapping.
PlainIndex(i, n) == 0 <= i /\ i < n

----------------------------------------------------------------------------
(* create_life_months_grid(life_span, current_age).                        *)

GridRowsNoSpare(life_span) == life_span \div YearsPerRow

\* life_span // 3 + 1
GridRows(life_span) == life_span \div YearsPerRow + 1

\* current_months_lived = current_age * 12
MonthsLived(age) == age * MonthsPerYear

CurrentMonthAtLived(lived) == lived

\* current_months_lived - 1, the month marked as current
CurrentMonth(lived) == lived - 1

\* grid[row, col] = value.  st is the call in progress: error, grid, rows,
\* writes (how many assignments were attempted) and plain (every one of them
\* used indices that address the array without wrapping).
SetCell(st, row, col, value) ==
    IF IndexOK(row, st.rows) /\ IndexOK(col, GridCols)
    THEN [st EXCEPT
            !.grid[ResolveIndex(row, st.rows)][ResolveIndex(col, GridCols)] = value,
            !.writes = @ + 1,
            !.plain = @ /\ PlainIndex(row, st.rows) /\ PlainIndex(col, GridCols)]
    ELSE [st EXCEPT !.error = "IndexError", !.writes = @ + 1, !.plain = FALSE]

\* One iteration of the loop body; an exception ends the loop.
FillMonth(st, month) ==
    IF st.error # "none"
    THEN st
    ELSE SetCell(st, month \div GridCols, month % GridCols, 1)

\* The iterations month = lo, lo + 1, ..., hi - 1, in that order.  (The range
\* is halved so that the evaluation nests only logarithmically deep.)
RECURSIVE FillRange(_, _, _)
FillRange(st, lo, hi) ==
    IF hi <= lo THEN st
    ELSE IF hi = lo + 1 THEN FillMonth(st, lo)
    ELSE LET mid   == (lo + hi) \div 2
             first == FillRange(st, lo, mid)
         IN  IF first.error # "none"
             THEN first
             ELSE FillRange(first, mid, hi)

FillEndPlusOne(lived) == lived + 1

\* range(current_months_lived) stops before current_months_lived
FillEnd(lived) == lived

\* for month in range(current_months_lived): grid[month // 36, month % 36] = 1
FillLived(st, lived) == FillRange(st, 0, FillEnd(lived))

\* grid[current_row, current_col] = 2, unless the loop raised
MarkCurrent(st) ==
    IF st.error # "none"
    THEN st
    ELSE SetCell(st, st.current_row, st.current_col, 2)

NoGrid == <<>>

\* return grid; a call that raised returns nothing
Returned(st) == IF st.error # "none" THEN [st EXCEPT !.grid = NoGrid] ELSE st

create_life_months_grid(life_span, age) ==
    LET rows        == GridRows(life_span)
        lived       == MonthsLived(age)
        current_row == CurrentMonth(lived) \div GridCols
        current_col == CurrentMonth(lived) % GridCols
        start       == [error |-> "none", rows |-> rows, grid |-> NoGrid,
                        writes |-> 0, plain |-> TRUE,
                        current_row |-> current_row, current_col |-> current_col]
    IN  IF rows < 0
        THEN [start EXCEPT !.error = "ValueError"]  \* np.zeros: negative dimension
        ELSE Returned(MarkCurrent(
                 FillLived([start EXCEPT !.grid = Zeros(rows, GridCols)], lived)))

----------------------------------------------------------------------------
(* render_life_months(grid).                                               *)

\* color_map = {0: 'lightgray', 1: 'blue', 2: 'red'}
color_map == [c \in {0, 1, 2} |->
                IF c = 0 THEN "lightgray" ELSE IF c = 1 THEN "blue" ELSE "red"]

\* for cell in row: color = color_map[cell]; grid_html += "<div ... {color} ...>"
\* (the cells one row adds; a status that is no key raises KeyError)
RenderRow(row) ==
    IF \E c \in DOMAIN row : row[c] \notin DOMAIN color_map
    THEN [error |-> "KeyError", cells |-> <<>>]
    ELSE [error |-> "none",
          cells |-> [i \in 1..GridCols |-> color_map[row[i - 1]]]]

RowOrderReversed(rows, k) == rows - 1 - k

\* for row in grid: the k-th iteration takes row k
RowOrder(rows, k) == k

\* for row in grid: ...  (rows k, k + 1, ... appended to what is emitted so far)
RECURSIVE RenderFrom(_, _, _)
RenderFrom(ret, out, k) ==
    IF k >= ret.rows \/ out.error # "none"
    THEN out
    ELSE LET r == RenderRow(ret.grid[RowOrder(ret.rows, k)])
         IN  RenderFrom(ret, [error |-> r.error, cells |-> out.cells \o r.cells], k + 1)

render_life_months(ret) == RenderFrom(ret, [error |-> "none", cells |-> <<>>], 0)

----------------------------------------------------------------------------
(* Python floats: IEEE 754 binary64, round to nearest, ties to even.       *)
(* A natural number of any size is the sequence of its digits in base      *)
(* 2^15, least significant first, with no leading zero (zero is <<>>).     *)
(* A float x >= 0 is [sig, exp] with x = sig * 2^exp, where sig has        *)
(* exactly 53 binary digits, or sig = <<>> for 0.0.                        *)

\* binary digits of the significand of a binary64 float
SigBits == 53

\* binary digits of one digit of a long natural number
LimbBits == 15

\* 2^n
RECURSIVE Pow2(_)
Pow2(n) == IF n = 0 THEN 1 ELSE 2 * Pow2(n - 1)

Base == Pow2(LimbBits)

RECURSIVE BigOfInt(_)
BigOfInt(n) == IF n = 0 THEN <<>> ELSE <<n % Base>> \o BigOfInt(n \div Base)

RECURSIVE BigTrim(_)
BigTrim(x) ==
    IF x = <<>> THEN <<>>
    ELSE IF x[Len(x)] # 0 THEN x
    ELSE BigTrim(SubSeq(x, 1, Len(x) - 1))

\* x * k + carry for naturals k, carry < 2^15, from digit i of x on
RECURSIVE BigMulFrom(_, _, _, _, _)
BigMulFrom(acc, x, k, i, carry) ==
    IF i > Len(x)
    THEN acc \o BigOfInt(carry)
    ELSE BigMulFrom(Append(acc, (x[i] * k + carry) % Base), x, k, i + 1,
                    (x[i] * k + carry) \div Base)

BigMulSmall(x, k) == BigTrim(BigMulFrom(<<>>, x, k, 1, 0))

BigInc(x) == BigTrim(BigMulFrom(<<>>, x, 1, 1, 1))

\* quotient and remainder of x by a natural 0 < m <= 2^15, from digit i down
RECURSIVE BigDivFrom(_, _, _, _, _)
BigDivFrom(acc, x, m, i, rem) ==
    IF i = 0
    THEN [quot |-> BigTrim(acc), rem |-> rem]
    ELSE BigDivFrom(<<(rem * Base + x[i]) \div m>> \o acc, x, m, i - 1,
                    (rem * Base + x[i]) % m)

BigDivSmall(x, m) == BigDivFrom(<<>>, x, m, Len(x), 0)

\* the number of binary digits of a natural n
RECURSIVE IntBitLen(_)
IntBitLen(n) == IF n = 0 THEN 0 ELSE 1 + IntBitLen(n \div 2)

BigBitLen(x) ==
    IF x = <<>> THEN 0 ELSE LimbBits * (Len(x) - 1) + IntBitLen(x[Len(x)])

\* x * 2^n
BigShl(x, n) ==
    IF x = <<>> THEN <<>>
    ELSE [i \in 1..(n \div LimbBits) |-> 0] \o BigMulSmall(x, Pow2(n % LimbBits))

\* x \div 2^n, and whether x is a multiple of 2^n
BigShr(x, n) ==
    LET whole == n \div LimbBits
        rest  == BigDivSmall(SubSeq(x, whole + 1, Len(x)), Pow2(n % LimbBits))
    IN  [quot  |-> rest.quot,
         exact |-> rest.rem = 0 /\ \A i \in 1..whole : i > Len(x) \/ x[i] = 0]

BigOdd(x) == x # <<>> /\ x[1] % 2 = 1

FloatZero == [sig |-> <<>>, exp |-> 0]

\* Round to nearest, ties to even: up when the dropped digits are more than
\* half a unit of the last kept digit, or exactly half and that digit is odd.
RoundUp(keepOdd, guard, sticky) == guard /\ (sticky \/ keepOdd)

\* The float nearest to a value v with x * 2^exp <= v < (x + 1) * 2^exp,
\* where v = x * 2^exp unless more.
RoundToFloat(x, exp, more) ==
    IF x = <<>> THEN FloatZero
    ELSE IF BigBitLen(x) <= SigBits
    THEN [sig |-> BigShl(x, SigBits - BigBitLen(x)),
          exp |-> exp - (SigBits - BigBitLen(x))]
    ELSE LET drop   == BigBitLen(x) - SigBits
             upper  == BigShr(x, drop - 1)
             keep   == BigShr(upper.quot, 1).quot
             guard  == BigOdd(upper.quot)
             sticky == more \/ ~upper.exact
             up     == IF RoundUp(BigOdd(keep), guard, sticky)
                       THEN BigInc(keep) ELSE keep
         IN  IF BigBitLen(up) > SigBits
             THEN [sig |-> BigShr(up, 1).quot, exp |-> exp + drop + 1]
             ELSE [sig |-> up, exp |-> exp + drop]

\* digits of the fraction that a division works out before it rounds
FracLimbs == 5

\* The first k digits of r / d after the point (0 <= r < d < 2^16), together
\* with the remainder left.
RECURSIVE QuotientDigits(_, _, _, _)
QuotientDigits(acc, r, d, k) ==
    IF k = 0
    THEN [digits |-> acc, rem |-> r]
    ELSE QuotientDigits(<<(r * Base) \div d>> \o acc, (r * Base) % d, d, k - 1)

\* a // b: floor division, as a float
IntFloorDivide(a, b) == RoundToFloat(BigOfInt(a \div b), 0, FALSE)

\* a / b for naturals a and 0 < b < 2^15: true division, correctly rounded.
IntTrueDivide(a, b) ==
    LET q == QuotientDigits(<<>>, a % b, b, FracLimbs)
    IN  RoundToFloat(BigTrim(q.digits \o BigOfInt(a \div b)),
                     0 - FracLimbs * LimbBits, q.rem # 0)

\* x * k for a float x >= 0 and a natural k < 2^15 (which is a float exactly)
FloatMulSmall(x, k) == RoundToFloat(BigMulSmall(x.sig, k), x.exp, FALSE)

Percent == 100

\* months_lived = current_age * 12
\* months_total = expected_lifespan * 12
\* percentage_lived = (months_lived / months_total) * 100
ComputeMetrics(lifespan, age) ==
    IF lifespan * MonthsPerYear = 0
    THEN [error |-> "ZeroDivisionError"]
    ELSE [error            |-> "none",
          months_lived     |-> age * MonthsPerYear,
          months_total     |-> lifespan * MonthsPerYear,
          percentage_lived |->
              FloatMulSmall(IntTrueDivide(age * MonthsPerYear,
                                          lifespan * MonthsPerYear), Percent)]

----------------------------------------------------------------------------
(* main: one run of the script.                                            *)

Unset == "unset"

\* A statement of main that has not run (yet, or because of an exception).
NotRun == [error |-> "not run"]

NoCall == [life_span |-> 0, current_age |-> 0, called |-> FALSE,
           ret |-> [error |-> "not called"]]

NoMemo == [life_span |-> 0, current_age |-> 0, called |-> FALSE, between |-> FALSE,
           ret |-> [error |-> "not called"]]

AgeSliderMaxFixed(lifespan) == MaxLifespan

\* max_value=expected_lifespan of the "Current Age" slider
AgeSliderMax(lifespan) == lifespan

\* The first exception raised, which ends the run; what follows is not run.
main ==
    /\ pc = "rerun"
    /\ pc' = "done"
    /\ expected_lifespan' = slider_lifespan
    /\ current_age' = slider_age
    /\ life_grid' = create_life_months_grid(slider_lifespan, slider_age)
    /\ grid_html' = IF life_grid'.error = "none"
                    THEN render_life_months(life_grid')
                    ELSE NotRun
    /\ metrics' = IF life_grid'.error = "none" /\ grid_html'.error = "none"
                  THEN ComputeMetrics(slider_lifespan, slider_age)
                  ELSE NotRun
    /\ exception' = IF life_grid'.error # "none" THEN life_grid'.error
                    ELSE IF grid_html'.error # "none" THEN grid_html'.error
                    ELSE IF metrics'.error # "none" THEN metrics'.error
                    ELSE "none"
    /\ UNCHANGED <<slider_lifespan, slider_age, call, memo>>

\* A new run starts with none of the previous run's locals.
Rerun ==
    /\ pc' = "rerun"
    /\ expected_lifespan' = Unset
    /\ current_age' = Unset
    /\ life_grid' = NotRun
    /\ grid_html' = NotRun
    /\ metrics' = NotRun
    /\ exception' = "none"

\* The user moves the "Expected Lifespan" slider.  The "Current Age" slider's
\* max_value changes with it, which makes it a new widget at its default
\* (value=30, which every lifespan the first slider allows admits).
MoveLifespan ==
    \E v \in MinLifespan..MaxLifespan :
        /\ v # slider_lifespan
        /\ slider_lifespan' = v
        /\ slider_age' = DefaultAge
        /\ Rerun
        /\ UNCHANGED <<call, memo>>

\* The user moves the "Current Age" slider within min_value..max_value.
MoveAge ==
    \E a \in MinAge..AgeSliderMax(slider_lifespan) :
        /\ a # slider_age
        /\ slider_age' = a
        /\ UNCHANGED slider_lifespan
        /\ Rerun
        /\ UNCHANGED <<call, memo>>

Init ==
    /\ slider_lifespan = DefaultLifespan
    /\ slider_age = DefaultAge
    /\ pc = "rerun"
    /\ expected_lifespan = Unset
    /\ current_age = Unset
    /\ life_grid = NotRun
    /\ grid_html = NotRun
    /\ metrics = NotRun
    /\ exception = "none"
    /\ call = NoCall
    /\ memo = NoMemo

Next == main \/ MoveLifespan \/ MoveAge

Spec == Init /\ [][Next]_vars

----------------------------------------------------------------------------
(* create_life_months_grid called directly, with any arguments, any number *)
(* of times.  memo names one pair of arguments from the start and keeps    *)
(* what the first call with them returned.                                 *)

\* the largest life_span of a direct call
MaxCallLifespan == 3

\* From the first life_span for which np.zeros gets a negative dimension up
\* to MaxCallLifespan, and the smallest lifespan the slider allows.
CallLifespans == ((0 - (YearsPerRow + 1))..MaxCallLifespan) \cup {MinLifespan}

CallAges == ((0 - 1)..(MaxCallLifespan + 1)) \cup {MinLifespan + 1}

\* life_span >= 1 and 0 <= current_age <= life_span
ValidPair(l, a) == l >= 1 /\ 0 <= a /\ a <= l

InitCall ==
    /\ slider_lifespan = DefaultLifespan
    /\ slider_age = DefaultAge
    /\ pc = "rerun"
    /\ expected_lifespan = Unset
    /\ current_age = Unset
    /\ life_grid = NotRun
    /\ grid_html = NotRun
    /\ metrics = NotRun
    /\ exception = "none"
    /\ call = NoCall
    /\ \E l \in CallLifespans : \E a \in CallAges :
          /\ ValidPair(l, a)
          /\ memo = [NoMemo EXCEPT !.life_span = l, !.current_age = a]

CallGrid ==
    \E l \in CallLifespans : \E a \in CallAges :
        /\ call' = [life_span |-> l, current_age |-> a, called |-> TRUE,
                    ret |-> create_life_months_grid(l, a)]
        /\ memo' = IF memo.life_span = l /\ memo.current_age = a
                   THEN IF memo.called
                        THEN memo
                        ELSE [memo EXCEPT !.called = TRUE, !.ret = call'.ret]
                   ELSE [memo EXCEPT !.between = memo.called]
        /\ UNCHANGED <<slider_lifespan, slider_age, pc, expected_lifespan,
                       current_age, life_grid, grid_html, metrics, exception>>

NextCall == CallGrid

SpecCall == InitCall /\ [][NextCall]_vars

----------------------------------------------------------------------------
(* Properties.                                                             *)

Ran == pc = "done"

\* the cell of the returned grid at a linear month index
Cell(idx) == life_grid.grid[idx \div 36][idx % 36]

CellCount == Cardinality(DOMAIN life_grid.grid) * 36

\* C1: for 1 <= age <= lifespan the returned grid has exactly one cell equal
\* to 2, at linear index age*12 - 1; every cell before it is 1 and every cell
\* from index age*12 on is 0.
C1_CurrentMonthMarked ==
    (Ran /\ current_age >= 1) =>
        /\ life_grid.error = "none"
        /\ \A idx \in 0..(CellCount - 1) :
              Cell(idx) = IF idx < current_age * 12 - 1 THEN 1
                          ELSE IF idx = current_age * 12 - 1 THEN 2
                          ELSE 0
        /\ Cardinality({idx \in 0..(CellCount - 1) : Cell(idx) = 2}) = 1

\* lifespan = 120, age = 120: cell 1439 (row 39, column 35) is the current month
C1_Witness ==
    /\ Ran
    /\ expected_lifespan = 120
    /\ current_age = 120
    /\ life_grid.error = "none"
    /\ life_grid.grid[39][35] = 2
    /\ life_grid.grid[39][34] = 1

\* C2: for age = 0 the returned grid has no cell equal to 2: every cell is 0.
C2_AgeZeroAllFuture ==
    (Ran /\ current_age = 0) =>
        /\ life_grid.error = "none"
        /\ \A idx \in 0..(CellCount - 1) : Cell(idx) = 0

\* C3: the returned grid has exactly floor(lifespan/3) + 1 rows and exactly 36
\* columns in every row, for every age from 0 to lifespan.
C3_GridShape ==
    Ran =>
        /\ life_grid.error = "none"
        /\ DOMAIN life_grid.grid = 0..(expected_lifespan \div 3)
        /\ \A r \in DOMAIN life_grid.grid : DOMAIN life_grid.grid[r] = 0..35

\* lifespan = 50, age = 0: 17 rows
C3_Witness ==
    /\ Ran
    /\ expected_lifespan = 50
    /\ current_age = 0
    /\ life_grid.error = "none"
    /\ Cardinality(DOMAIN life_grid.grid) = 17

\* C4: the pair main passes to create_life_months_grid satisfies
\* 50 <= expected_lifespan <= 120 and 0 <= current_age <= expected_lifespan.
C4_ValidParameters ==
    Ran =>
        /\ 50 <= expected_lifespan /\ expected_lifespan <= 120
        /\ 0 <= current_age /\ current_age <= expected_lifespan

\* both sliders moved: the smallest lifespan, and the age at its maximum
C4_Witness ==
    /\ Ran
    /\ expected_lifespan = 50
    /\ current_age = 50

\* x < y, x = y or x > y, comparing from the most significant digit down
RECURSIVE BigCmpFrom(_, _, _)
BigCmpFrom(x, y, i) ==
    IF i = 0 THEN "eq"
    ELSE IF x[i] < y[i] THEN "lt"
    ELSE IF x[i] > y[i] THEN "gt"
    ELSE BigCmpFrom(x, y, i - 1)

BigCmp(x, y) ==
    IF Len(x) < Len(y) THEN "lt"
    ELSE IF Len(x) > Len(y) THEN "gt"
    ELSE BigCmpFrom(x, y, Len(x))

\* x - y for x >= y, from digit i on
RECURSIVE BigSubFrom(_, _, _, _, _)
BigSubFrom(acc, x, y, i, borrow) ==
    IF i > Len(x)
    THEN acc
    ELSE LET yi == IF i <= Len(y) THEN y[i] ELSE 0
         IN  BigSubFrom(Append(acc, (x[i] - yi - borrow) % Base), x, y, i + 1,
                        IF x[i] - yi - borrow < 0 THEN 1 ELSE 0)

BigSub(x, y) == BigTrim(BigSubFrom(<<>>, x, y, 1, 0))

\* |x - y|
BigDist(x, y) == IF BigCmp(x, y) = "lt" THEN BigSub(y, x) ELSE BigSub(x, y)

\* percentage_lived * months_total and months_lived * 100 as long naturals,
\* both scaled by the same power of two
PercentTimesTotal ==
    BigShl(BigMulSmall(metrics.percentage_lived.sig, metrics.months_total),
           IF metrics.percentage_lived.exp > 0 THEN metrics.percentage_lived.exp ELSE 0)

LivedTimes100 ==
    BigShl(BigOfInt(metrics.months_lived * 100),
           IF metrics.percentage_lived.exp < 0 THEN 0 - metrics.percentage_lived.exp ELSE 0)

\* 0 <= percentage_lived <= 100
PercentInRange ==
    BigCmp(BigShl(metrics.percentage_lived.sig,
                  IF metrics.percentage_lived.exp > 0
                  THEN metrics.percentage_lived.exp ELSE 0),
           BigShl(BigOfInt(100),
                  IF metrics.percentage_lived.exp < 0
                  THEN 0 - metrics.percentage_lived.exp ELSE 0)) # "gt"

MetricsIntegers ==
    /\ metrics.error = "none"
    /\ metrics.months_lived = current_age * 12
    /\ metrics.months_total = expected_lifespan * 12
    /\ metrics.months_total > 0
    /\ 0 <= metrics.months_lived
    /\ metrics.months_lived <= metrics.months_total

\* C5 as stated: months_lived = age*12, months_total = lifespan*12 > 0, and
\* percentage_lived * months_total = months_lived * 100 exactly, with
\* 0 <= months_lived <= months_total and the percentage in 0..100.
C5_PercentageExact ==
    Ran =>
        /\ MetricsIntegers
        /\ BigCmp(PercentTimesTotal, LivedTimes100) = "eq"
        /\ PercentInRange

\* C5 amended: as C5, but percentage_lived * months_total equals
\* months_lived * 100 only up to the rounding of the float division and the
\* float multiplication: they differ by at most months_lived * 100 * 2^-52.
C5_PercentageWithinRounding ==
    Ran =>
        /\ MetricsIntegers
        /\ BigCmp(BigShl(BigDist(PercentTimesTotal, LivedTimes100), 52),
                  LivedTimes100) # "gt"
        /\ PercentInRange

\* lifespan = 90, age = 30: 360 of 1080 months, and 100/3 is no float
C5_Witness ==
    /\ Ran
    /\ metrics.error = "none"
    /\ metrics.months_lived = 360
    /\ metrics.months_total = 1080
    /\ BigCmp(PercentTimesTotal, LivedTimes100) # "eq"

\* C6: render_life_months emits one cell per grid cell, rows * 36 in all, in
\* row-major order, each coloured by its status alone: 0 lightgray, 1 blue,
\* 2 red; the lookup never fails on a grid create_life_months_grid returned.
C6_RenderEveryCell ==
    (Ran /\ life_grid.error = "none") =>
        /\ grid_html.error = "none"
        /\ Len(grid_html.cells) = CellCount
        /\ \A r \in DOMAIN life_grid.grid : \A c \in 0..35 :
              /\ life_grid.grid[r][c] \in {0, 1, 2}
              /\ grid_html.cells[r * 36 + c + 1] =
                    IF life_grid.grid[r][c] = 0 THEN "lightgray"
                    ELSE IF life_grid.grid[r][c] = 1 THEN "blue"
                    ELSE "red"

\* lifespan = 90, age = 30: blue up to cell 358, red at 359, lightgray from 360
C6_Witness ==
    /\ Ran
    /\ expected_lifespan = 90
    /\ current_age = 30
    /\ grid_html.error = "none"
    /\ grid_html.cells[1] = "blue"
    /\ grid_html.cells[360] = "red"
    /\ grid_html.cells[361] = "lightgray"

C8_InvalidParameterRaised ==
    (call.called /\ ~ValidPair(call.life_span, call.current_age)) =>
        call.ret.error = "InvalidParameter"

C10_WritesInBounds ==
    (Ran /\ current_age >= 1) =>
        /\ life_grid.error = "none"
        /\ life_grid.writes = current_age * 12 + 1
        /\ life_grid.plain
        /\ 0 <= life_grid.current_row
        /\ life_grid.current_row < expected_lifespan \div 3 + 1
        /\ 0 <= life_grid.current_col /\ life_grid.current_col < 36
        /\ current_age * 12 <= 36 * (expected_lifespan \div 3 + 1)
        /\ \A idx \in (CellCount - 12)..(CellCount - 1) : Cell(idx) = 0

\* lifespan = 50, age = 50: 600 of 612 cells written, the remaining 12 are 0
C10_Witness ==
    /\ Ran
    /\ expected_lifespan = 50
    /\ current_age = 50
    /\ life_grid.error = "none"
    /\ life_grid.writes = 601
    /\ Cell(599) = 2
    /\ Cell(600) = 0

====
